---- MODULE Spec2Model ----
(***************************************************************************)
(* Model of the Epd4in2bc driver (src/src/epd4in2bc/mod.rs).               *)
(*                                                                         *)
(* Every driver operation is a straight-line program of transport steps    *)
(* (reset pulse, command write, data write, fill, delay, wait idle).  The  *)
(* program of an operation is a pure operator of its arguments and of the  *)
(* driver's two fields (color, refresh); the actions below execute a       *)
(* program one transport step at a time, so that a failing bus write ends  *)
(* the operation (the `?` of the source) and a busy controller blocks it.  *)
(***************************************************************************)
EXTENDS Integers, Sequences, FiniteSets, TLC

VARIABLES
    exists,     \* a driver value has been returned to the caller by new
    color,      \* Epd4in2bc.color
    refresh,    \* Epd4in2bc.refresh
    panel,      \* controller state: Uninitialized, Ready, Sleeping
    busyPin,    \* level of the busy input line
    call,       \* the operation in progress, or the last one finished
    prog,       \* transport steps of that operation
    pc,         \* index in prog of the next step
    trace,      \* steps that operation has performed so far
    result,     \* "none", "running", "Ok", "Err"
    wfail,      \* a bus write failed during that operation
    gfail,      \* a GPIO access failed during that operation
    scenario,   \* "none" for a free caller, else the name of the call script
    script,     \* calls a scripted caller has still to make
    hist,       \* operations a scripted caller has finished, in order
    display     \* a Display4in2b value: its buffer and its rotation

vars == <<exists, color, refresh, panel, busyPin, call, prog, pc, trace,
          result, wfail, gfail, scenario, script, hist, display>>

driverVars == <<exists, color, refresh, panel, busyPin, call, prog, pc, trace,
                result, wfail, gfail, scenario, script, hist>>

----------------------------------------------------------------------------
(* Program constants and input domains *)

WIDTH == 400

HEIGHT == 300

NumBufs == 2

Buffers == 1..NumBufs

Colors == {"White", "Black", "Chromatic"}

RefreshLuts == {"Full", "Quick"}

DEFAULT_BACKGROUND_COLOR == "White"

IS_BUSY_LOW == TRUE

\* windows <<x, y, width, height>> inside the panel, width >= 1, height >= 1
Windows ==
    { <<5, 0, 10, 1>>, <<7, 0, 2, 1>>, <<248, 298, 16, 2>>, <<264, 7, 16, 2>>,
      <<392, 0, 8, 300>> }

----------------------------------------------------------------------------
(* Integer helpers: the casts and bit operations of the source *)

U8(v) == v % 256

Shr8(v) == v \div 256

And0xF8(v) == (v % 256) - (v % 8)

Or0x07(v) == v - (v % 8) + 7

get_byte_value(c) == IF c = "White" THEN 255 ELSE 0

get_bit_value(c) == IF c = "White" THEN 1 ELSE 0

----------------------------------------------------------------------------
(* Transport steps (DisplayInterface) *)

Step(k, a, d, b, n) == [k |-> k, a |-> a, d |-> d, b |-> b, n |-> n]

Reset(lo, hi) == Step("reset", "", <<lo, hi>>, 0, 0)

Cmd(c) == Step("cmd", c, <<>>, 0, 0)

Data(bytes) == Step("data", "", bytes, 0, 0)

DataBuf(b) == Step("data", "buffer", <<>>, b, 0)

DataLut(t) == Step("data", t, <<>>, 0, 0)

DataXTimes(byte, n) == Step("fill", "", <<byte>>, 0, n)

DelayUs(us) == Step("delay", "", <<>>, 0, us)

WaitUntilIdle == Step("wait", "", <<>>, 0, 0)

CmdWithData(c, dataStep) == <<Cmd(c), dataStep>>

----------------------------------------------------------------------------
(* Programs of the driver's private helpers *)

send_resolution ==
    << Cmd("ResolutionSetting"),
       Data(<<U8(Shr8(WIDTH))>>), Data(<<U8(WIDTH)>>),
       Data(<<U8(Shr8(HEIGHT))>>), Data(<<U8(HEIGHT)>>) >>

set_lut_helper(lut_vcom, lut_ww, lut_bw, lut_wb, lut_bb) ==
    << WaitUntilIdle >>
    \o CmdWithData("LutForVcom", DataLut(lut_vcom))
    \o CmdWithData("LutWhiteToWhite", DataLut(lut_ww))
    \o CmdWithData("LutBlackToWhite", DataLut(lut_bw))
    \o CmdWithData("LutWhiteToBlack", DataLut(lut_wb))
    \o CmdWithData("LutBlackToBlack", DataLut(lut_bb))

\* the part of set_lut after the assignment of self.refresh
set_lut_tables(ref) ==
    IF ref = "Full"
    THEN set_lut_helper("LUT_VCOM0", "LUT_WW", "LUT_BW", "LUT_WB", "LUT_BB")
    ELSE set_lut_helper("LUT_VCOM0_QUICK", "LUT_WW_QUICK", "LUT_BW_QUICK",
                        "LUT_WB_QUICK", "LUT_BB_QUICK")

shift_display(x, y, width, height) ==
    LET tmp  == And0xF8(x)
        tmp2 == tmp + width - 1
    IN  << Data(<<U8(Shr8(x))>>),
           Data(<<U8(tmp)>>),
           Data(<<U8(Shr8(tmp2))>>),
           Data(<<U8(Or0x07(tmp2))>>),
           Data(<<U8(Shr8(y))>>),
           Data(<<U8(y)>>),
           Data(<<U8(Shr8(y + height - 1))>>),
           Data(<<U8(y + height - 1)>>),
           Data(<<1>>) >>

----------------------------------------------------------------------------
(* Programs of the driver's operations *)

init_PowerOnBeforeLut(ref) ==
    << Reset(10000, 10000) >>
    \o CmdWithData("PowerSetting", Data(<<3, 0, 43, 43, 255>>))
    \o CmdWithData("BoosterSoftStart", Data(<<23, 23, 23>>))
    \o CmdWithData("PanelSetting", Data(<<15>>))
    \o CmdWithData("PllControl", Data(<<60>>))
    \o send_resolution
    \o CmdWithData("VcmDcSetting", Data(<<18>>))
    \o CmdWithData("VcomAndDataIntervalSetting", Data(<<127>>))
    \o << Cmd("PowerOn"), DelayUs(5000) >>
    \o set_lut_tables(ref)
    \o << WaitUntilIdle >>

init(ref) ==
    << Reset(10000, 10000) >>
    \o CmdWithData("PowerSetting", Data(<<3, 0, 43, 43, 255>>))
    \o CmdWithData("BoosterSoftStart", Data(<<23, 23, 23>>))
    \o CmdWithData("PanelSetting", Data(<<15>>))
    \o CmdWithData("PllControl", Data(<<60>>))
    \o send_resolution
    \o CmdWithData("VcmDcSetting", Data(<<18>>))
    \o CmdWithData("VcomAndDataIntervalSetting", Data(<<127>>))
    \o set_lut_tables(ref)
    \o << Cmd("PowerOn"), DelayUs(5000), WaitUntilIdle >>

\* an achromatic write that waits idle after its data, as the chromatic does
update_achromatic_frame_Waits(black) ==
    << Cmd("DataStartTransmission1"), DataBuf(black), WaitUntilIdle >>

update_achromatic_frame(black) ==
    << Cmd("DataStartTransmission1"), DataBuf(black) >>

update_chromatic_frame(chromatic) ==
    << Cmd("DataStartTransmission2"), DataBuf(chromatic), WaitUntilIdle >>

update_color_frame(black, chromatic) ==
    update_achromatic_frame(black) \o update_chromatic_frame(chromatic)

sleep_PowerOffUnconfirmed ==
    << WaitUntilIdle >>
    \o CmdWithData("VcomAndDataIntervalSetting", Data(<<127>>))
    \o << Cmd("VcmDcSetting"), Cmd("PanelSetting"), Cmd("PowerSetting") >>
    \o [i \in 1..4 |-> Data(<<0>>)]
    \o << Cmd("PowerOff"), WaitUntilIdle, Cmd("DeepSleep") >>

sleep ==
    << WaitUntilIdle >>
    \o CmdWithData("VcomAndDataIntervalSetting", Data(<<127>>))
    \o << Cmd("VcmDcSetting"), Cmd("PanelSetting"), Cmd("PowerSetting") >>
    \o [i \in 1..4 |-> Data(<<0>>)]
    \o << Cmd("PowerOff"), WaitUntilIdle >>
    \o CmdWithData("DeepSleep", Data(<<165>>))

\* a wake-up that only powers the panel on again
wake_up_PowerOnOnly(ref) ==
    set_lut_tables(ref) \o << Cmd("PowerOn"), DelayUs(5000), WaitUntilIdle >>

wake_up(ref) == init(ref)

\* an update_frame that starts streaming without waiting for the controller
update_frame_StreamsBeforeWait(buffer, col) ==
    << Cmd("DataStartTransmission1"), DataBuf(buffer), WaitUntilIdle,
       DataXTimes(get_byte_value(col), (WIDTH \div 8) * HEIGHT) >>
    \o CmdWithData("DataStartTransmission2", DataBuf(buffer))
    \o << Cmd("DataStop") >>

update_frame(buffer, col) ==
    << WaitUntilIdle,
       Cmd("DataStartTransmission1"), DataBuf(buffer),
       DataXTimes(get_byte_value(col), (WIDTH \div 8) * HEIGHT) >>
    \o CmdWithData("DataStartTransmission2", DataBuf(buffer))
    \o << Cmd("DataStop") >>

update_partial_frame(buffer, x, y, width, height, col) ==
    << WaitUntilIdle, Cmd("PartialIn"), Cmd("PartialWindow"),
       Data(<<U8(Shr8(x))>>),
       Data(<<U8(And0xF8(x))>>),
       Data(<<U8(Shr8(And0xF8(x) + width - 1))>>),
       Data(<<U8(Or0x07(And0xF8(x) + width - 1))>>),
       Data(<<U8(Shr8(y))>>),
       Data(<<U8(y % 256)>>),
       Data(<<U8(Shr8(y + height - 1))>>),
       Data(<<U8((y + height - 1) % 256)>>),
       Data(<<1>>),
       DelayUs(2000),
       Cmd("DataStartTransmission1"), DataBuf(buffer),
       Cmd("DataStartTransmission2"),
       DataXTimes(get_bit_value(col), (WIDTH \div 8) * HEIGHT),
       DelayUs(2000),
       Cmd("PartialOut") >>

display_frame_NoFinalWait(ref) ==
    set_lut_tables(ref) \o << Cmd("DisplayRefresh"), DelayUs(100000) >>

display_frame(ref) ==
    set_lut_tables(ref)
    \o << Cmd("DisplayRefresh"), DelayUs(100000), WaitUntilIdle >>

update_and_display_frame(buffer, col) ==
    update_frame(buffer, col) \o << Cmd("DisplayRefresh") >>

clear_frame(col) ==
    << WaitUntilIdle >>
    \o send_resolution
    \o << Cmd("DataStartTransmission1"),
          DataXTimes(get_bit_value(col), (WIDTH \div 8) * HEIGHT),
          Cmd("DataStartTransmission2"),
          DataXTimes(get_bit_value(col), (WIDTH \div 8) * HEIGHT) >>

set_lut_refresh_KeepsOldMode(refresh_rate, ref) == ref

\* refresh_rate is "None", "Full" or "Quick"; ref is self.refresh at the call
set_lut_refresh(refresh_rate, ref) ==
    IF refresh_rate # "None" THEN refresh_rate ELSE ref

update_old_frame_ResendsResolution(buffer) ==
    << WaitUntilIdle >>
    \o send_resolution
    \o << Cmd("DataStartTransmission1"), DataBuf(buffer) >>

update_old_frame(buffer) ==
    << WaitUntilIdle, Cmd("DataStartTransmission1"), DataBuf(buffer) >>

update_new_frame(buffer) ==
    << WaitUntilIdle >>
    \o send_resolution
    \o << Cmd("DataStartTransmission2"), DataBuf(buffer) >>

display_new_frame(ref) == display_frame(ref)

update_and_display_new_frame(buffer, ref) ==
    update_new_frame(buffer) \o display_frame(ref)

update_partial_old_frame(buffer, x, y, width, height) ==
    << WaitUntilIdle, Cmd("PartialIn"), Cmd("PartialWindow") >>
    \o shift_display(x, y, width, height)
    \o << Cmd("DataStartTransmission1"), DataBuf(buffer) >>

\* a new-frame call that leaves the controller in partial mode
update_partial_new_frame_StaysInPartialMode(buffer, x, y, width, height) ==
    << WaitUntilIdle >>
    \o shift_display(x, y, width, height)
    \o << Cmd("DataStartTransmission2"), DataBuf(buffer) >>

update_partial_new_frame(buffer, x, y, width, height) ==
    << WaitUntilIdle >>
    \o shift_display(x, y, width, height)
    \o << Cmd("DataStartTransmission2"), DataBuf(buffer), Cmd("PartialOut") >>

clear_partial_frame(x, y, width, height, col) ==
    << WaitUntilIdle >>
    \o send_resolution
    \o << Cmd("PartialIn"), Cmd("PartialWindow") >>
    \o shift_display(x, y, width, height)
    \o << Cmd("DataStartTransmission1"),
          DataXTimes(get_byte_value(col), (width \div 8) * height),
          Cmd("DataStartTransmission2"),
          DataXTimes(get_byte_value(col), (width \div 8) * height),
          Cmd("PartialOut") >>

----------------------------------------------------------------------------
(* Calls: an operation name with its arguments *)

NoCall ==
    [op |-> "none", b1 |-> 0, b2 |-> 0, x |-> 0, y |-> 0, w |-> 0, h |-> 0,
     mode |-> "None", col |-> DEFAULT_BACKGROUND_COLOR]

CallOp(op) == [NoCall EXCEPT !.op = op]

CallBuf(op, b) == [NoCall EXCEPT !.op = op, !.b1 = b]

CallWin(op, b, win) ==
    [NoCall EXCEPT !.op = op, !.b1 = b,
                   !.x = win[1], !.y = win[2], !.w = win[3], !.h = win[4]]

ColorOnCall_ResetByWakeUp(c, col) ==
    CASE c.op \in {"new", "wake_up"} -> DEFAULT_BACKGROUND_COLOR
      [] c.op = "set_background_color" -> c.col
      [] OTHER -> col

\* self.color once the call c has been entered
ColorOnCall(c, col) ==
    CASE c.op = "new" -> DEFAULT_BACKGROUND_COLOR
      [] c.op = "set_background_color" -> c.col
      [] OTHER -> col

\* a refresh mode that init puts back to Quick on every wake_up
RefreshOnCall_ResetByWakeUp(c, ref) ==
    CASE c.op \in {"new", "wake_up"} -> "Quick"
      [] c.op = "set_lut" -> set_lut_refresh(c.mode, ref)
      [] OTHER -> ref

\* self.refresh once the call c has been entered
RefreshOnCall(c, ref) ==
    CASE c.op = "new" -> "Quick"
      [] c.op = "set_lut" -> set_lut_refresh(c.mode, ref)
      [] OTHER -> ref

\* the transport steps of call c on a driver with fields col, ref
ProgOf(c, col, ref) ==
    CASE c.op = "new" -> init(ref)
      [] c.op = "sleep" -> sleep
      [] c.op = "wake_up" -> wake_up(ref)
      [] c.op = "set_background_color" -> << >>
      [] c.op = "update_frame" -> update_frame(c.b1, col)
      [] c.op = "update_partial_frame" ->
            update_partial_frame(c.b1, c.x, c.y, c.w, c.h, col)
      [] c.op = "display_frame" -> display_frame(ref)
      [] c.op = "update_and_display_frame" -> update_and_display_frame(c.b1, col)
      [] c.op = "clear_frame" -> clear_frame(col)
      [] c.op = "set_lut" -> set_lut_tables(ref)
      [] c.op = "update_color_frame" -> update_color_frame(c.b1, c.b2)
      [] c.op = "update_achromatic_frame" -> update_achromatic_frame(c.b1)
      [] c.op = "update_chromatic_frame" -> update_chromatic_frame(c.b1)
      [] c.op = "update_old_frame" -> update_old_frame(c.b1)
      [] c.op = "update_new_frame" -> update_new_frame(c.b1)
      [] c.op = "display_new_frame" -> display_new_frame(ref)
      [] c.op = "update_and_display_new_frame" ->
            update_and_display_new_frame(c.b1, ref)
      [] c.op = "update_partial_old_frame" ->
            update_partial_old_frame(c.b1, c.x, c.y, c.w, c.h)
      [] c.op = "update_partial_new_frame" ->
            update_partial_new_frame(c.b1, c.x, c.y, c.w, c.h)
      [] c.op = "clear_partial_frame" ->
            clear_partial_frame(c.x, c.y, c.w, c.h, col)
      [] c.op = "shift_display" -> shift_display(c.x, c.y, c.w, c.h)
      [] OTHER -> << >>

ExistsAfter_IgnoresInitError(c, res, ex) == IF c.op = "new" THEN TRUE ELSE ex

\* whether the caller holds a driver once call c has returned res
ExistsAfter(c, res, ex) == IF c.op = "new" THEN res = "Ok" ELSE ex

\* controller state once call c has returned res
PanelAfter(c, res, pan) ==
    CASE res = "Ok" /\ c.op \in {"new", "wake_up"} -> "Ready"
      [] res = "Ok" /\ c.op = "sleep" -> "Sleeping"
      [] OTHER -> pan

\* a width getter that returns the other dimension
width_ReturnsHeight == HEIGHT

\* the getters
width == WIDTH

height == HEIGHT

background_color == color

is_busy == IF IS_BUSY_LOW THEN busyPin = "low" ELSE busyPin = "high"

----------------------------------------------------------------------------
(* Entering and leaving an operation *)

Idle == result # "running"

Begin(c) ==
    /\ Idle
    /\ call' = c
    /\ color' = ColorOnCall(c, color)
    /\ refresh' = RefreshOnCall(c, refresh)
    /\ prog' = ProgOf(c, color', refresh')
    /\ pc' = 1
    /\ trace' = << >>
    /\ result' = "running"
    /\ wfail' = FALSE
    /\ gfail' = FALSE
    /\ UNCHANGED <<exists, panel, busyPin, scenario, hist, display>>

Finish(res) ==
    /\ result' = res
    /\ exists' = ExistsAfter(call, res, exists)
    /\ panel' = PanelAfter(call, res, panel)
    /\ IF scenario = "none"
       THEN UNCHANGED <<hist, script>>
       ELSE /\ hist' = Append(hist, [call |-> call, trace |-> trace,
                                     res |-> res, wfail |-> wfail'])
            /\ script' = IF res = "Ok" THEN script ELSE << >>
    /\ UNCHANGED <<color, refresh, busyPin, call, prog, pc, trace, gfail,
                   scenario, display>>

----------------------------------------------------------------------------
(* Executing the operation in progress, one transport step at a time *)

Running == result = "running" /\ pc <= Len(prog)

\* the step is done and the operation goes on to its next statement
Advance ==
    /\ trace' = Append(trace, prog[pc])
    /\ pc' = pc + 1
    /\ UNCHANGED <<exists, color, refresh, panel, busyPin, call, prog, result,
                   wfail, scenario, script, hist, display>>

Perform == Advance /\ UNCHANGED gfail

\* DisplayInterface::reset: its outcome is not inspected by init
StepReset == Running /\ prog[pc].k = "reset" /\ Perform

\* driving the reset line fails during the pulse: init has no `?` on the
\* call and goes on to its first command
StepResetGpioFail ==
    Running /\ prog[pc].k = "reset" /\ gfail' = TRUE /\ Advance

StepDelay == Running /\ prog[pc].k = "delay" /\ Perform

\* wait_until_idle returns once the busy line reports idle
StepWait == Running /\ prog[pc].k = "wait" /\ ~is_busy /\ Perform

\* reading the busy line fails: the transport's wait ends, the wrapper
\* discards its outcome and returns Ok(()), whatever the level of the line
StepWaitGpioFail ==
    Running /\ prog[pc].k = "wait" /\ gfail' = TRUE /\ Advance

\* a bus write (command byte, data bytes or fill) that succeeds
StepWrite == Running /\ prog[pc].k \in {"cmd", "data", "fill"} /\ Perform

\* a failed bus write whose error is dropped: the operation goes on
StepWriteFail_ErrorDropped ==
    /\ Running /\ prog[pc].k \in {"cmd", "data", "fill"}
    /\ wfail' = TRUE
    /\ pc' = pc + 1
    /\ UNCHANGED <<exists, color, refresh, panel, busyPin, call, prog, trace,
                   result, gfail, scenario, script, hist, display>>

\* a bus write that fails: `?` returns the error from the operation
StepWriteFail ==
    /\ Running /\ prog[pc].k \in {"cmd", "data", "fill"}
    /\ wfail' = TRUE
    /\ Finish("Err")

\* the end of the operation's body: Ok(())
Return ==
    /\ result = "running" /\ pc > Len(prog)
    /\ UNCHANGED wfail
    /\ Finish("Ok")

\* the controller raises or releases its busy line
BusyChange ==
    /\ busyPin' = IF busyPin = "low" THEN "high" ELSE "low"
    /\ UNCHANGED <<exists, color, refresh, panel, call, prog, pc, trace,
                   result, wfail, gfail, scenario, script, hist, display>>

----------------------------------------------------------------------------
(* The frame buffer Display4in2b: one byte array for both planes, and a     *)
(* rotation. The bytes are kept at a few probe positions, the first and the *)
(* last byte of each plane; no operation here touches the other bytes.      *)

\* bytes of one plane: rows of ceil(WIDTH / 8) bytes, HEIGHT rows
NUM_DISPLAY_BITS == ((WIDTH + 7) \div 8) * HEIGHT

Rotations == {"Rotate0", "Rotate90", "Rotate180", "Rotate270"}

Probes ==
    { 0, NUM_DISPLAY_BITS - 1, NUM_DISPLAY_BITS, 2 * NUM_DISPLAY_BITS - 1 }

Bytes == {0, 127, 255}

Display4in2b_default ==
    [ buffer   |-> [i \in Probes |-> get_byte_value(DEFAULT_BACKGROUND_COLOR)],
      len      |-> 2 * NUM_DISPLAY_BITS,
      rotation |-> "Rotate0" ]

\* &buffer[from..to]: a view of the bytes from .. to - 1 of the buffer
Slice(from, to) == [from |-> from, to |-> to]

SliceLen(s) == s.to - s.from

InSlice(s, i) == s.from <= i /\ i < s.to

size == <<WIDTH, HEIGHT>>

rotation == display.rotation

chromatic_offset == NUM_DISPLAY_BITS

bw_buffer == Slice(0, chromatic_offset)

\* a chromatic view that starts at the first byte of the buffer
chromatic_buffer_FromStart == Slice(0, display.len)

chromatic_buffer == Slice(chromatic_offset, display.len)

set_rotation ==
    /\ \E r \in Rotations : display' = [display EXCEPT !.rotation = r]
    /\ UNCHANGED driverVars

\* get_mut_buffer()[i] = v
get_mut_buffer ==
    /\ \E i \in Probes, v \in Bytes :
          display' = [display EXCEPT !.buffer[i] = v]
    /\ UNCHANGED driverVars

----------------------------------------------------------------------------
(* A free caller: any operation of the public API, in any order *)

Free == scenario = "none" /\ UNCHANGED script

Modes == {"None"} \cup RefreshLuts

New == Free /\ ~exists /\ Begin(CallOp("new"))

Sleep == Free /\ exists /\ Begin(CallOp("sleep"))

WakeUp == Free /\ exists /\ Begin(CallOp("wake_up"))

SetBackgroundColor ==
    Free /\ exists /\ \E c \in Colors :
        Begin([CallOp("set_background_color") EXCEPT !.col = c])

UpdateFrame ==
    Free /\ exists /\ \E b \in Buffers : Begin(CallBuf("update_frame", b))

UpdatePartialFrame ==
    Free /\ exists /\ \E b \in Buffers, win \in Windows :
        Begin(CallWin("update_partial_frame", b, win))

DisplayFrame == Free /\ exists /\ Begin(CallOp("display_frame"))

UpdateAndDisplayFrame ==
    Free /\ exists /\ \E b \in Buffers :
        Begin(CallBuf("update_and_display_frame", b))

ClearFrame == Free /\ exists /\ Begin(CallOp("clear_frame"))

SetLut ==
    Free /\ exists /\ \E m \in Modes :
        Begin([CallOp("set_lut") EXCEPT !.mode = m])

UpdateColorFrame ==
    Free /\ exists /\ \E b \in Buffers, c \in Buffers :
        Begin([CallBuf("update_color_frame", b) EXCEPT !.b2 = c])

UpdateAchromaticFrame ==
    Free /\ exists /\ \E b \in Buffers :
        Begin(CallBuf("update_achromatic_frame", b))

UpdateChromaticFrame ==
    Free /\ exists /\ \E b \in Buffers :
        Begin(CallBuf("update_chromatic_frame", b))

UpdateOldFrame ==
    Free /\ exists /\ \E b \in Buffers : Begin(CallBuf("update_old_frame", b))

UpdateNewFrame ==
    Free /\ exists /\ \E b \in Buffers : Begin(CallBuf("update_new_frame", b))

DisplayNewFrame == Free /\ exists /\ Begin(CallOp("display_new_frame"))

UpdateAndDisplayNewFrame ==
    Free /\ exists /\ \E b \in Buffers :
        Begin(CallBuf("update_and_display_new_frame", b))

UpdatePartialOldFrame ==
    Free /\ exists /\ \E b \in Buffers, win \in Windows :
        Begin(CallWin("update_partial_old_frame", b, win))

UpdatePartialNewFrame ==
    Free /\ exists /\ \E b \in Buffers, win \in Windows :
        Begin(CallWin("update_partial_new_frame", b, win))

ClearPartialFrame ==
    Free /\ exists /\ \E win \in Windows :
        Begin(CallWin("clear_partial_frame", 0, win))

ShiftDisplay ==
    Free /\ exists /\ \E win \in Windows :
        Begin(CallWin("shift_display", 0, win))

Init ==
    /\ exists = FALSE
    /\ color = DEFAULT_BACKGROUND_COLOR
    /\ refresh = "Quick"
    /\ panel = "Uninitialized"
    /\ busyPin \in {"low", "high"}
    /\ call = NoCall
    /\ prog = << >>
    /\ pc = 1
    /\ trace = << >>
    /\ result = "none"
    /\ wfail = FALSE
    /\ gfail = FALSE
    /\ scenario = "none"
    /\ script = << >>
    /\ hist = << >>
    /\ display = Display4in2b_default

Next ==
    \/ New \/ Sleep \/ WakeUp \/ SetBackgroundColor
    \/ UpdateFrame \/ UpdatePartialFrame \/ DisplayFrame
    \/ UpdateAndDisplayFrame \/ ClearFrame \/ SetLut
    \/ UpdateColorFrame \/ UpdateAchromaticFrame \/ UpdateChromaticFrame
    \/ UpdateOldFrame \/ UpdateNewFrame \/ DisplayNewFrame
    \/ UpdateAndDisplayNewFrame
    \/ UpdatePartialOldFrame \/ UpdatePartialNewFrame \/ ClearPartialFrame
    \/ ShiftDisplay
    \/ StepReset \/ StepDelay \/ StepWait \/ StepWrite \/ StepWriteFail
    \/ StepResetGpioFail \/ StepWaitGpioFail
    \/ Return \/ BusyChange

Spec == Init /\ [][Next]_vars

\* the owner of a frame buffer: rotates it and writes into it
NextDisplay == set_rotation \/ get_mut_buffer

SpecDisplay == Init /\ [][NextDisplay]_vars

----------------------------------------------------------------------------
(* A scripted caller: a fixed sequence of calls, stopped by the first error *)

\* optional configuration between new and the calls of the scenario
Preambles ==
    { << >> }
    \cup { << [CallOp("set_background_color") EXCEPT !.col = c] >> : c \in Colors }
    \cup { << [CallOp("set_lut") EXCEPT !.mode = m] >> : m \in RefreshLuts }

RoundTripCalls(b) ==
    << CallBuf("update_frame", b), CallOp("display_frame"), CallOp("sleep"),
       CallOp("wake_up"), CallBuf("update_frame", b) >>

QuickRefreshCalls(a, b) ==
    << CallBuf("update_old_frame", a), CallBuf("update_new_frame", b),
       CallOp("display_frame") >>

\* the partial updates: a whole one, a clear, and the old / new pair
PartialRefreshCalls(a, b, win) ==
    << CallWin("update_partial_frame", a, win),
       CallWin("clear_partial_frame", 0, win),
       CallWin("update_partial_old_frame", a, win),
       CallWin("update_partial_new_frame", b, win) >>

Scripts ==
    { [name |-> "round_trip", calls |-> <<CallOp("new")>> \o pre \o RoundTripCalls(b)] :
        pre \in Preambles, b \in Buffers }
    \cup
    { [name |-> "quick_refresh",
       calls |-> <<CallOp("new")>> \o pre \o QuickRefreshCalls(sel[1], sel[2])] :
        pre \in Preambles, sel \in Buffers \X Buffers }
    \cup
    { [name |-> "partial_refresh",
       calls |-> <<CallOp("new")>> \o PartialRefreshCalls(sel[1], sel[2], win)] :
        sel \in Buffers \X Buffers, win \in Windows }

ScriptedCall ==
    /\ scenario # "none"
    /\ script # << >>
    /\ Begin(Head(script))
    /\ script' = Tail(script)

InitScenario ==
    /\ exists = FALSE
    /\ color = DEFAULT_BACKGROUND_COLOR
    /\ refresh = "Quick"
    /\ panel = "Uninitialized"
    /\ busyPin \in {"low", "high"}
    /\ call = NoCall
    /\ prog = << >>
    /\ pc = 1
    /\ trace = << >>
    /\ result = "none"
    /\ wfail = FALSE
    /\ gfail = FALSE
    /\ hist = << >>
    /\ display = Display4in2b_default
    /\ \E sc \in Scripts : scenario = sc.name /\ script = sc.calls

NextScenario ==
    \/ ScriptedCall
    \/ StepReset \/ StepDelay \/ StepWait \/ StepWrite \/ StepWriteFail
    \/ StepResetGpioFail \/ StepWaitGpioFail
    \/ Return \/ BusyChange

SpecScenario == InitScenario /\ [][NextScenario]_vars

----------------------------------------------------------------------------
(* Vocabulary of the properties *)

IsPrefix(s, t) == Len(s) <= Len(t) /\ s = SubSeq(t, 1, Len(s))

NotDelay(e) == e.k # "delay"

IsWrite(e) == e.k \in {"cmd", "data", "fill"}

\* a trace without its delays: reset, commands, data and waits
Emitted(t) == SelectSeq(t, NotDelay)

\* the bus writes of a trace: commands and data
Writes(t) == SelectSeq(t, IsWrite)

\* the five register loads of a refresh mode, as the spec lists them
LutLoad(mode) ==
    IF mode = "Full"
    THEN << Cmd("LutForVcom"), DataLut("LUT_VCOM0"),
            Cmd("LutWhiteToWhite"), DataLut("LUT_WW"),
            Cmd("LutBlackToWhite"), DataLut("LUT_BW"),
            Cmd("LutWhiteToBlack"), DataLut("LUT_WB"),
            Cmd("LutBlackToBlack"), DataLut("LUT_BB") >>
    ELSE << Cmd("LutForVcom"), DataLut("LUT_VCOM0_QUICK"),
            Cmd("LutWhiteToWhite"), DataLut("LUT_WW_QUICK"),
            Cmd("LutBlackToWhite"), DataLut("LUT_BW_QUICK"),
            Cmd("LutWhiteToBlack"), DataLut("LUT_WB_QUICK"),
            Cmd("LutBlackToBlack"), DataLut("LUT_BB_QUICK") >>

\* the scripted caller has made every call and no bus write has failed
ScriptDone(name) ==
    /\ scenario = name
    /\ script = << >>
    /\ result # "running"
    /\ hist # << >>
    /\ \A i \in 1..Len(hist) : ~hist[i].wfail

----------------------------------------------------------------------------
(* C1: after new, update_frame(buf), display_frame, sleep, wake_up, the
   driver is Ready again and a second update_frame(buf) succeeds and emits
   exactly the same sequence of commands, data bytes and busy-waits as the
   first one. *)
C1_RoundTrip ==
    ScriptDone("round_trip") =>
        LET n == Len(hist) IN
        /\ n >= 6
        /\ \A i \in 1..n : hist[i].res = "Ok"
        /\ hist[n].call.op = "update_frame"
        /\ hist[n - 4].call = hist[n].call
        /\ hist[n - 1].call.op = "wake_up"
        /\ panel = "Ready"
        /\ hist[n].trace = hist[n - 4].trace

C1_Witness ==
    /\ ScriptDone("round_trip")
    /\ Len(hist) = 7
    /\ hist[2].call.op = "set_background_color"
    /\ color = "Black"
    /\ hist[7].res = "Ok"
    /\ Len(hist[7].trace) = 7

(* C2: update_old_frame(bufA), update_new_frame(bufB), display_frame() on a
   Ready driver record, in this order: DataStartTransmission1, bufA,
   ResolutionSetting with the four width/height bytes,
   DataStartTransmission2, bufB, the five LUT register loads,
   DisplayRefresh; update_old_frame itself sends no ResolutionSetting. *)
C2_QuickRefreshTrace ==
    ScriptDone("quick_refresh") =>
        LET n == Len(hist)
            old == hist[n - 2]
            nw  == hist[n - 1]
            dsp == hist[n]
        IN
        /\ n >= 4
        /\ old.call.op = "update_old_frame" /\ nw.call.op = "update_new_frame"
        /\ dsp.call.op = "display_frame"
        /\ Writes(old.trace \o nw.trace \o dsp.trace) =
              << Cmd("DataStartTransmission1"), DataBuf(old.call.b1),
                 Cmd("ResolutionSetting"),
                 Data(<<1>>), Data(<<144>>), Data(<<1>>), Data(<<44>>),
                 Cmd("DataStartTransmission2"), DataBuf(nw.call.b1) >>
              \o LutLoad(refresh)
              \o << Cmd("DisplayRefresh") >>
        /\ \A i \in 1..Len(old.trace) : old.trace[i] # Cmd("ResolutionSetting")

C2_Witness ==
    /\ ScriptDone("quick_refresh")
    /\ Len(hist) = 5
    /\ hist[2].call.op = "set_lut"
    /\ refresh = "Full"
    /\ hist[5].res = "Ok"
    /\ hist[3].call.b1 # hist[4].call.b1

----------------------------------------------------------------------------
(* More vocabulary: skeletons and payloads of a trace *)

IsResetOrCmd(e) == e.k \in {"reset", "cmd"}

\* the reset pulses and commands of a trace, by name, in order
Skeleton(t) ==
    LET f == SelectSeq(t, IsResetOrCmd)
    IN  [i \in 1..Len(f) |-> IF f[i].k = "cmd" THEN f[i].a ELSE "reset"]

\* index of the first occurrence of command c in t, 0 when there is none
IndexOf(t, c) ==
    IF \E i \in 1..Len(t) : t[i] = Cmd(c)
    THEN CHOOSE i \in 1..Len(t) :
            t[i] = Cmd(c) /\ \A j \in 1..(i - 1) : t[j] # Cmd(c)
    ELSE 0

IsLiteralData(e) == e.k = "data" /\ e.a = ""

RECURSIVE PayloadFrom(_, _)
\* the literal data bytes written from position j on, up to the next step
\* that is not a literal data write
PayloadFrom(t, j) ==
    IF j > Len(t) \/ ~IsLiteralData(t[j]) THEN << >>
    ELSE t[j].d \o PayloadFrom(t, j + 1)

\* the bytes that follow command c
PayloadOf(t, c) == PayloadFrom(t, IndexOf(t, c) + 1)

InitSkeleton ==
    << "reset", "PowerSetting", "BoosterSoftStart", "PanelSetting",
       "PllControl", "ResolutionSetting", "VcmDcSetting",
       "VcomAndDataIntervalSetting",
       "LutForVcom", "LutWhiteToWhite", "LutBlackToWhite", "LutWhiteToBlack",
       "LutBlackToBlack", "PowerOn" >>

\* everything Init emits for a refresh mode, delays left out
InitEmitted(mode) ==
    << Reset(10000, 10000),
       Cmd("PowerSetting"), Data(<<3, 0, 43, 43, 255>>),
       Cmd("BoosterSoftStart"), Data(<<23, 23, 23>>),
       Cmd("PanelSetting"), Data(<<15>>),
       Cmd("PllControl"), Data(<<60>>),
       Cmd("ResolutionSetting"),
       Data(<<1>>), Data(<<144>>), Data(<<1>>), Data(<<44>>),
       Cmd("VcmDcSetting"), Data(<<18>>),
       Cmd("VcomAndDataIntervalSetting"), Data(<<127>>),
       WaitUntilIdle >>
    \o LutLoad(mode)
    \o << Cmd("PowerOn"), WaitUntilIdle >>

SleepEmitted ==
    << WaitUntilIdle,
       Cmd("VcomAndDataIntervalSetting"), Data(<<127>>),
       Cmd("VcmDcSetting"), Cmd("PanelSetting"),
       Cmd("PowerSetting"), Data(<<0>>), Data(<<0>>), Data(<<0>>), Data(<<0>>),
       Cmd("PowerOff"), WaitUntilIdle,
       Cmd("DeepSleep"), Data(<<165>>) >>

----------------------------------------------------------------------------
(* C3: Init emits its steps in this fixed order and no other: reset pulse,
   PowerSetting, BoosterSoftStart, PanelSetting, PllControl,
   ResolutionSetting (width 400 and height 300 as big-endian 16-bit values),
   VcmDcSetting, VcomAndDataIntervalSetting, load of the five LUT registers
   of the active refresh mode, PowerOn, wait idle; on success the driver is
   Ready. *)
C3_InitOrder ==
    call.op = "new" =>
        /\ IsPrefix(Skeleton(trace), InitSkeleton)
        /\ trace # << >> => trace[1].k = "reset"
        /\ LET r == PayloadOf(trace, "ResolutionSetting") IN
           IndexOf(trace, "VcmDcSetting") > 0 =>
              /\ Len(r) = 4
              /\ r[1] * 256 + r[2] = 400
              /\ r[3] * 256 + r[4] = 300
        /\ LET i == IndexOf(trace, "LutForVcom") IN
           IndexOf(trace, "PowerOn") > 0 =>
              SubSeq(trace, i, i + 9) = LutLoad(refresh)
        /\ result = "Ok" =>
              /\ Skeleton(trace) = InitSkeleton
              /\ trace[Len(trace)] = WaitUntilIdle
              /\ Emitted(trace)[Len(Emitted(trace)) - 1] = Cmd("PowerOn")
              /\ panel = "Ready"

C3_Witness ==
    /\ call.op = "new" /\ result = "Ok"
    /\ Len(trace) = 32

(* C4: construction is all-or-nothing: if a step of Init fails inside new,
   new returns the error, no driver is returned to the caller and no Init
   step after the failed one is sent; a driver is returned only after the
   complete Init sequence has succeeded. *)
C4_AllOrNothing ==
    /\ (call.op = "new" /\ wfail) =>
          /\ result = "Err"
          /\ ~exists
          /\ pc <= Len(prog) /\ IsWrite(prog[pc])
          /\ trace = SubSeq(prog, 1, pc - 1)
          /\ IsPrefix(Emitted(trace), InitEmitted(refresh))
          /\ Emitted(trace) # InitEmitted(refresh)
    /\ ~exists => call.op \in {"none", "new"} /\ result # "Ok"
    /\ (exists /\ call.op = "new") =>
          /\ result = "Ok"
          /\ Emitted(trace) = InitEmitted(refresh)
    /\ exists => panel # "Uninitialized"

C4_Witness ==
    /\ call.op = "new" /\ result = "Err" /\ ~exists
    /\ Len(trace) = 20

(* C5: sleep emits, in order: wait idle, VcomAndDataIntervalSetting with
   0x7F, VcmDcSetting, PanelSetting, PowerSetting followed by four 0x00
   data bytes, PowerOff, wait idle, DeepSleep with data byte 0xA5; a wait
   idle always occurs before PowerOff, the last thing sent is DeepSleep with
   its confirmation byte, and the driver is then Sleeping. *)
C5_SleepOrder ==
    call.op = "sleep" =>
        /\ IsPrefix(Emitted(trace), SleepEmitted)
        /\ \A i \in 1..Len(trace) :
              trace[i] = Cmd("PowerOff") =>
                 \E j \in 1..(i - 1) : trace[j] = WaitUntilIdle
        /\ result = "Ok" =>
              /\ Emitted(trace) = SleepEmitted
              /\ trace[Len(trace) - 1] = Cmd("DeepSleep")
              /\ trace[Len(trace)] = Data(<<165>>)
              /\ panel = "Sleeping"

C5_Witness ==
    /\ call.op = "sleep" /\ result = "Ok"
    /\ panel = "Sleeping"
    /\ Len(trace) = 14

(* C6: wake_up re-runs Init in full: in every driver state, what wake_up
   emits when it returns is exactly the sequence of reset, commands, data
   bytes and waits of Init, every step in the same order, and it moves the
   driver from Sleeping to Ready. *)
C6_WakeUpIsInit ==
    [][ (call.op = "wake_up" /\ result = "running" /\ result' = "Ok") =>
            /\ Emitted(trace') = InitEmitted(refresh')
            /\ refresh' = refresh /\ color' = color
            /\ panel' = "Ready" ]_vars

C6_Witness ==
    /\ call.op = "wake_up" /\ result = "running" /\ pc > Len(prog)
    /\ panel = "Sleeping"
    /\ refresh = "Full"

(* C7: the LUT is reloaded on every refresh: in every trace, each
   DisplayRefresh command is preceded, within the same operation and with
   no frame data in between, by the load of the five LUT registers of the
   active refresh mode (display_frame, display_new_frame,
   update_and_display_new_frame, update_and_display_frame). *)
C7_LutBeforeEveryRefresh ==
    \A i \in 1..Len(trace) :
        trace[i] = Cmd("DisplayRefresh") =>
            /\ i > 10
            /\ SubSeq(trace, i - 10, i - 1) = LutLoad(refresh)

(* C8: display_frame emits, in order: load of the LUT of the active refresh
   mode, the DisplayRefresh command, a fixed settle delay, then wait idle;
   it returns only after that final wait idle has completed. *)
C8_DisplayFrameOrder ==
    call.op = "display_frame" =>
        /\ Len(trace) <= 14
        /\ IsPrefix(SubSeq(trace, 1, IF Len(trace) < 11 THEN Len(trace) ELSE 11),
                    <<WaitUntilIdle>> \o LutLoad(refresh))
        /\ Len(trace) >= 12 => trace[12] = Cmd("DisplayRefresh")
        /\ Len(trace) >= 13 => trace[13].k = "delay" /\ trace[13].n = 100000
        /\ Len(trace) >= 14 => trace[14] = WaitUntilIdle
        /\ result = "Ok" => Len(trace) = 14

C8_Witness ==
    /\ call.op = "display_frame" /\ result = "Ok"
    /\ panel = "Ready"
    /\ refresh = "Full"
    /\ trace[Len(trace)] = WaitUntilIdle

(* C9: set_lut(mode): when mode is given the active refresh mode becomes
   mode, when it is absent the active mode is unchanged; in both cases the
   driver first waits idle and then writes all five tables of the resulting
   active mode, each to its own register, in the order LutForVcom,
   LutWhiteToWhite, LutBlackToWhite, LutWhiteToBlack, LutBlackToBlack; Full
   selects the full-waveform tables and Quick the quick-waveform tables,
   never a mix. *)
C9_SetLut ==
    /\ [] ( call.op = "set_lut" =>
              /\ call.mode # "None" => refresh = call.mode
              /\ IsPrefix(trace, <<WaitUntilIdle>> \o LutLoad(refresh))
              /\ result = "Ok" => trace = <<WaitUntilIdle>> \o LutLoad(refresh) )
    /\ [][ (result # "running" /\ result' = "running" /\ call'.op = "set_lut") =>
              refresh' = IF call'.mode = "None" THEN refresh ELSE call'.mode ]_vars

C9_Witness ==
    /\ call.op = "set_lut" /\ result = "Ok"
    /\ call.mode = "Full" /\ refresh = "Full"
    /\ Len(trace) = 11

\* the nine bytes the spec gives for the window <<x, y, width, height>>
WindowBytes(x, y, w, h) ==
    LET xs == x - (x % 8)
        xe == Or0x07(xs + w - 1) % 65536
        ye == y + h - 1
    IN  << xs \div 256, xs % 256, xe \div 256, xe % 256,
           y \div 256, y % 256, ye \div 256, ye % 256, 1 >>

\* position in the trace of an operation of the first byte of its window
WindowAt(op) ==
    CASE op \in {"update_partial_frame", "update_partial_old_frame"} -> 4
      [] op = "clear_partial_frame" -> 9
      [] op = "update_partial_new_frame" -> 2
      [] OTHER -> 1

WindowOps ==
    { "update_partial_frame", "update_partial_old_frame",
      "update_partial_new_frame", "clear_partial_frame", "shift_display" }

(* C10: for every window (x, y, width, height) inside the panel with
   width >= 1 and height >= 1, the data sent to declare the window is
   exactly nine bytes: big-endian 16-bit x-start, x-end, y-start, y-end and
   the byte 0x01, where x-start is x truncated down to a multiple of 8,
   x-end is (x-start + width - 1) | 0x07 as a 16-bit value, y-start is y and
   y-end is y + height - 1. *)
C10_WindowPayload ==
    (call.op \in WindowOps /\ Len(trace) >= WindowAt(call.op) + 8) =>
        /\ PayloadFrom(trace, WindowAt(call.op)) =
              WindowBytes(call.x, call.y, call.w, call.h)

\* the worked example of the spec: x = 5, width = 10
C10_ExampleHolds ==
    (call.op \in WindowOps /\ Len(trace) >= WindowAt(call.op) + 8
        /\ call.x = 5 /\ call.w = 10) =>
        LET p == PayloadFrom(trace, WindowAt(call.op))
        IN  p[1] * 256 + p[2] = 0 /\ p[3] * 256 + p[4] = 15

(* C11: the effective partial window always contains the requested one on
   the x-axis: for every x and every width >= 1 with x + width <= 400, the
   declared x-start is at most x and the declared x-end is at least
   x + width - 1. *)
C11_WindowContainsRequest ==
    (call.op \in WindowOps /\ Len(trace) >= WindowAt(call.op) + 8) =>
        LET p == PayloadFrom(trace, WindowAt(call.op))
        IN  /\ p[1] * 256 + p[2] <= call.x
            /\ p[3] * 256 + p[4] >= call.x + call.w - 1

\* the same containment, for the windows that lie below x = 256 only
C11_ContainsBelow256 ==
    (call.op \in WindowOps /\ Len(trace) >= WindowAt(call.op) + 8
        /\ call.x + call.w <= 256) =>
        LET p == PayloadFrom(trace, WindowAt(call.op))
        IN  /\ p[1] * 256 + p[2] <= call.x
            /\ p[3] * 256 + p[4] >= call.x + call.w - 1

----------------------------------------------------------------------------
(* C12: update_frame(buffer) on a Ready driver first waits idle, then
   streams the buffer after DataStartTransmission1, then streams the same
   buffer after DataStartTransmission2, and returns with the driver Ready;
   nothing is written before the initial wait idle has completed. *)
C12_UpdateFrameOrder ==
    /\ [] ( (call.op = "update_frame" /\ panel = "Ready") =>
              /\ trace # << >> => trace[1] = WaitUntilIdle
              /\ result = "Ok" =>
                   LET i == IndexOf(trace, "DataStartTransmission1")
                       j == IndexOf(trace, "DataStartTransmission2")
                   IN  /\ 1 < i /\ i + 1 < j /\ j + 1 <= Len(trace)
                       /\ trace[i + 1] = DataBuf(call.b1)
                       /\ trace[j + 1] = DataBuf(call.b1)
                       /\ \A k \in 1..Len(trace) :
                            (trace[k].k = "data" /\ trace[k].a = "buffer")
                                => k \in {i + 1, j + 1} )
    /\ [][ (call'.op = "update_frame" /\ panel = "Ready") =>
              panel' = "Ready" ]_vars

C12_Witness ==
    /\ call.op = "update_frame" /\ panel = "Ready" /\ result = "Ok"
    /\ call.b1 = 2
    /\ Len(trace) = 7

(* C13: update_color_frame(black, chromatic) emits DataStartTransmission1,
   the black buffer, DataStartTransmission2, the chromatic buffer and then
   a wait idle, in exactly this order; the achromatic write performs no
   wait idle, the only wait comes after the chromatic data. *)
C13_ColorFrameOrder ==
    LET full == << Cmd("DataStartTransmission1"), DataBuf(call.b1),
                   Cmd("DataStartTransmission2"), DataBuf(call.b2),
                   WaitUntilIdle >>
    IN  /\ call.op = "update_color_frame" =>
              /\ IsPrefix(trace, full)
              /\ result = "Ok" => trace = full
        /\ call.op = "update_achromatic_frame" =>
              /\ IsPrefix(trace, SubSeq(full, 1, 2))
              /\ result = "Ok" => trace = SubSeq(full, 1, 2)

C13_Witness ==
    /\ call.op = "update_color_frame" /\ result = "Ok"
    /\ call.b1 = 1 /\ call.b2 = 2
    /\ Len(trace) = 5 /\ trace[5] = WaitUntilIdle

(* C14: a bus write failure is fatal and never retried: for every operation
   and every position of the failing write, the operation returns the error
   at once, sends no further command or data after the failed write, and
   never sends the failed write a second time. *)
C14_WriteFailureIsFatal ==
    /\ [] ( wfail =>
              /\ result = "Err"
              /\ pc <= Len(prog) /\ IsWrite(prog[pc])
              /\ trace = SubSeq(prog, 1, pc - 1) )
    /\ [] ( result = "Err" => wfail )
    /\ [][ wfail => (trace' = trace \/ (result' = "running" /\ trace' = << >>))
         ]_vars

C14_Witness ==
    /\ wfail /\ result = "Err"
    /\ call.op = "update_frame"
    /\ pc = 6 /\ prog[pc] = DataBuf(call.b1)
    /\ Len(trace) = 5

(* C15: GPIO failures propagate like bus write failures: if driving the
   reset line during the reset pulse or reading the busy line during a wait
   idle fails, the operation returns an error instead of continuing. *)
C15_GpioFailurePropagates ==
    gfail =>
        /\ result = "Err"
        /\ pc <= Len(prog) /\ prog[pc].k \in {"reset", "wait"}

(* C16: wait idle has no timeout: an operation that waits idle returns only
   after the busy line has reported the idle level, and while the line
   stays busy nothing that follows the wait is sent. *)
C16_WaitEndsOnlyWhenIdle ==
    [][ (result = "running" /\ pc <= Len(prog) /\ prog[pc].k = "wait"
            /\ pc' = pc + 1) => ~is_busy ]_vars

\* the same, for the operations in which no GPIO access has failed
C16_WaitEndsOnlyWhenIdleUnlessGpioFails ==
    [][ (result = "running" /\ pc <= Len(prog) /\ prog[pc].k = "wait"
            /\ pc' = pc + 1 /\ ~gfail') => ~is_busy ]_vars

\* frame data, a window declaration or a refresh trigger
FrameTraffic(e) ==
    \/ e.k = "fill"
    \/ e.k = "data" /\ e.a = "buffer"
    \/ e \in { Cmd("DataStartTransmission1"), Cmd("DataStartTransmission2"),
               Cmd("PartialWindow"), Cmd("DisplayRefresh") }

(* C17: the only transitions of the panel are Uninitialized -> Ready (Init),
   Ready -> Sleeping (sleep) and Sleeping -> Ready (wake_up), and under any
   sequence of calls no frame data, window declaration or DisplayRefresh is
   sent between a DeepSleep command and the completion of the next Init. *)
C17_FrameOpsOnlyWhenReady ==
    /\ [] ( panel = "Sleeping" =>
              \A i \in 1..Len(trace) : ~FrameTraffic(trace[i]) )
    /\ [][ panel' # panel =>
              <<panel, panel'>> \in { <<"Uninitialized", "Ready">>,
                                      <<"Ready", "Sleeping">>,
                                      <<"Sleeping", "Ready">> } ]_vars

\* the transitions alone
C17_Transitions ==
    [][ panel' # panel =>
           <<panel, panel'>> \in { <<"Uninitialized", "Ready">>,
                                   <<"Ready", "Sleeping">>,
                                   <<"Sleeping", "Ready">> } ]_vars

----------------------------------------------------------------------------
(* C18: the frame buffer's reported size follows its rotation: with
   rotation 0 or 180 it is (400, 300), with rotation 90 or 270 it is
   (300, 400), after any sequence of set_rotation calls, while the backing
   storage keeps its length. *)
C18_SizeFollowsRotation ==
    /\ size = IF rotation \in {"Rotate0", "Rotate180"}
              THEN <<400, 300>> ELSE <<300, 400>>
    /\ display.len = 30000

\* the size that is reported, whatever the rotation
C18_SizeIsFixed == size = <<400, 300>> /\ display.len = 30000

(* C19: bw_buffer is the bytes [0, N) and chromatic_buffer the bytes
   [N, 2N) of the same buffer of 2N bytes, N = 15000: the two views never
   overlap, each is 15000 bytes long, together they are the whole 30000
   bytes, and a byte written into one plane is never visible through the
   other. *)
C19_PlanesAreDisjoint ==
    /\ [] ( /\ bw_buffer = Slice(0, 15000)
            /\ chromatic_buffer = Slice(15000, 30000)
            /\ SliceLen(bw_buffer) = 15000
            /\ SliceLen(chromatic_buffer) = 15000
            /\ display.len = 30000
            /\ \A i \in Probes :
                  InSlice(bw_buffer, i) # InSlice(chromatic_buffer, i) )
    /\ [][ \A i \in Probes :
              display'.buffer[i] # display.buffer[i] =>
                 /\ InSlice(bw_buffer, i) # InSlice(chromatic_buffer, i)
                 /\ \A j \in Probes \ {i} :
                       display'.buffer[j] = display.buffer[j] ]_vars

C19_Witness ==
    /\ display.buffer[NUM_DISPLAY_BITS - 1] = 0
    /\ display.buffer[NUM_DISPLAY_BITS] = 127
    /\ display.buffer[0] = 255
    /\ rotation = "Rotate90"

----------------------------------------------------------------------------
(* C20: width() returns 400 and height() returns 300 in every reachable
   state of the driver, whatever operations were called; a newly
   constructed driver has the background colour White, and the colour stays
   so until set_background_color is called. *)
C20_GeometryAndDefaultColor ==
    /\ [] ( width = 400 /\ height = 300 )
    /\ [] ( call.op = "new" => background_color = "White" )
    /\ [][ background_color' # background_color =>
              /\ call'.op = "set_background_color" /\ result' = "running"
              /\ background_color' = call'.col ]_vars

C20_Witness ==
    /\ exists /\ call.op = "wake_up" /\ result = "Ok"
    /\ width = 400 /\ height = 300
    /\ background_color = "White"

----------------------------------------------------------------------------
(* Vocabulary: what a register receives *)

IsDataOrFill(e) == e.k \in {"data", "fill"}

RECURSIVE DataRun(_, _)
\* the data writes and fills from position j on, up to the next command
DataRun(t, j) ==
    IF j > Len(t) \/ t[j].k \in {"cmd", "reset"} THEN << >>
    ELSE IF IsDataOrFill(t[j]) THEN << t[j] >> \o DataRun(t, j + 1)
    ELSE DataRun(t, j + 1)

\* what follows the first occurrence of command c, << >> when c was not sent
ReceivedBy(t, c) ==
    IF IndexOf(t, c) = 0 THEN << >> ELSE DataRun(t, IndexOf(t, c) + 1)

(* C21: in update_frame the flood of WIDTH / 8 * HEIGHT repetitions of the
   background colour's byte value is sent after the DataStartTransmission2
   command, so the register of DataStartTransmission1 receives exactly the
   caller's buffer and nothing else. *)
C21_FloodGoesToSecondRegister ==
    (call.op = "update_frame" /\ result = "Ok") =>
        /\ ReceivedBy(trace, "DataStartTransmission1") = << DataBuf(call.b1) >>
        /\ \A i \in 1..Len(trace) :
              trace[i].k = "fill" =>
                 /\ IndexOf(trace, "DataStartTransmission2") # 0
                 /\ IndexOf(trace, "DataStartTransmission2") < i

\* what the register of DataStartTransmission1 does receive in update_frame
C21_FirstRegisterGetsBufferAndFlood ==
    (call.op = "update_frame" /\ result = "Ok") =>
        /\ ReceivedBy(trace, "DataStartTransmission1") =
              << DataBuf(call.b1),
                 DataXTimes(get_byte_value(color), 15000) >>
        /\ ReceivedBy(trace, "DataStartTransmission2") = << DataBuf(call.b1) >>

FloodOps ==
    { "update_frame", "update_and_display_frame", "clear_frame",
      "update_partial_frame", "clear_partial_frame" }

(* C22: every plane flood-fill the driver performs uses the background
   colour's byte value (its bit value replicated across all 8 bits), never
   the single-bit value: in update_frame, clear_frame, update_partial_frame
   and clear_partial_frame, for every background colour. *)
C22_FloodUsesByteValue ==
    call.op \in FloodOps =>
        \A i \in 1..Len(trace) :
            trace[i].k = "fill" =>
                trace[i].d = << get_byte_value(background_color) >>

\* the fills of update_frame and clear_partial_frame alone
C22_ByteValueInUpdateAndClearPartial ==
    call.op \in {"update_frame", "update_and_display_frame",
                 "clear_partial_frame"} =>
        \A i \in 1..Len(trace) :
            trace[i].k = "fill" =>
                trace[i].d = << get_byte_value(background_color) >>

PartialOps ==
    { "update_partial_frame", "clear_partial_frame",
      "update_partial_old_frame", "update_partial_new_frame" }

(* C23: a partial update streams data for the declared window only: the
   number of data bytes sent after each of DataStartTransmission1 and
   DataStartTransmission2 is width / 8 * height of the requested window,
   never the full-frame size; for update_partial_frame, clear_partial_frame
   and the update_partial_old_frame / update_partial_new_frame pair. *)
C23_PartialDataIsWindowSized ==
    call.op \in PartialOps =>
        \A c \in {"DataStartTransmission1", "DataStartTransmission2"} :
            LET r == ReceivedBy(trace, c)
            IN  \A i \in 1..Len(r) :
                   r[i].k = "fill" => r[i].n = (call.w \div 8) * call.h

\* the same for clear_partial_frame alone, whose two fills are window-sized
C23_ClearPartialIsWindowSized ==
    (call.op = "clear_partial_frame" /\ result = "Ok") =>
        \A c \in {"DataStartTransmission1", "DataStartTransmission2"} :
            LET r == ReceivedBy(trace, c)
            IN  Len(r) = 1 /\ r[1].k = "fill"
                /\ r[1].n = (call.w \div 8) * call.h

----------------------------------------------------------------------------
\* number of times command c occurs in t
Count(t, c) == Len(SelectSeq(t, LAMBDA e : e = Cmd(c)))

\* name of the last command of t, "" when t has no command
LastCommand(t) ==
    LET f == SelectSeq(t, LAMBDA e : e.k = "cmd")
    IN  IF f = << >> THEN "" ELSE f[Len(f)].a

(* C24: partial mode is always exited after streaming: update_partial_frame
   and clear_partial_frame each send PartialIn before the window
   declaration and PartialOut as their last command; the pair
   update_partial_old_frame, update_partial_new_frame sends exactly one
   PartialIn, in the old-frame call, and exactly one PartialOut, the last
   command of the new-frame call; after each completed partial update as
   many PartialIn as PartialOut commands have been sent. *)
C24_PartialModeIsExited ==
    ScriptDone("partial_refresh") =>
        LET n   == Len(hist)
            upd == hist[n - 3].trace
            clr == hist[n - 2].trace
            old == hist[n - 1].trace
            nw  == hist[n].trace
        IN
        /\ n = 5
        /\ hist[n - 3].call.op = "update_partial_frame"
        /\ hist[n - 2].call.op = "clear_partial_frame"
        /\ hist[n - 1].call.op = "update_partial_old_frame"
        /\ hist[n].call.op = "update_partial_new_frame"
        /\ \A t \in {upd, clr} :
              /\ Count(t, "PartialIn") = 1 /\ Count(t, "PartialOut") = 1
              /\ IndexOf(t, "PartialIn") < IndexOf(t, "PartialWindow")
              /\ LastCommand(t) = "PartialOut"
        /\ Count(old, "PartialIn") = 1 /\ Count(old, "PartialOut") = 0
        /\ Count(nw, "PartialIn") = 0 /\ Count(nw, "PartialOut") = 1
        /\ LastCommand(nw) = "PartialOut"
        /\ Count(hist[1].trace, "PartialIn") = 0
        /\ Count(hist[1].trace, "PartialOut") = 0

C24_Witness ==
    /\ ScriptDone("partial_refresh")
    /\ Len(hist) = 5
    /\ hist[5].res = "Ok"
    /\ hist[5].call.x = 248 /\ hist[5].call.w = 16
    /\ hist[4].call.b1 # hist[5].call.b1

(* C25: every window declaration is the payload of a PartialWindow command:
   in update_partial_frame, update_partial_old_frame,
   update_partial_new_frame and clear_partial_frame the nine window bytes
   are immediately preceded by the PartialWindow command, so they are never
   sent as data of another command. *)
C25_WindowFollowsPartialWindow ==
    (call.op \in PartialOps /\ Len(trace) >= WindowAt(call.op)) =>
        /\ IsLiteralData(trace[WindowAt(call.op)])
        /\ trace[WindowAt(call.op) - 1] = Cmd("PartialWindow")

\* the same without update_partial_new_frame
C25_HoldsButForNewFrame ==
    (call.op \in PartialOps \ {"update_partial_new_frame"}
        /\ Len(trace) >= WindowAt(call.op)) =>
        /\ IsLiteralData(trace[WindowAt(call.op)])
        /\ trace[WindowAt(call.op) - 1] = Cmd("PartialWindow")

----------------------------------------------------------------------------
\* the five register loads of mode m occur in t, one after the other
Loads(t, m) ==
    \E i \in 1..Len(t) :
        i + 9 <= Len(t) /\ SubSeq(t, i, i + 9) = LutLoad(m)

(* C26: the stored settings change only through their setters: the active
   refresh mode is Quick at construction and is changed only by set_lut
   with a mode given, the background colour only by set_background_color;
   every other operation leaves both unchanged, so a mode selected before
   sleep is still the one loaded by wake_up and by later display_frame
   calls. *)
C26_SettingsChangeOnlyBySetters ==
    /\ [] ( call.op = "new" => refresh = "Quick" )
    /\ [][ refresh' # refresh =>
              /\ call'.op = "set_lut" /\ call'.mode # "None"
              /\ result' = "running" /\ refresh' = call'.mode ]_vars
    /\ [][ color' # color =>
              /\ call'.op = "set_background_color" /\ result' = "running"
              /\ color' = call'.col ]_vars
    /\ [] ( (call.op \in {"wake_up", "display_frame"} /\ result = "Ok") =>
              /\ Loads(trace, refresh)
              /\ \A m \in RefreshLuts \ {refresh} : ~Loads(trace, m) )

C26_Witness ==
    /\ call.op = "wake_up" /\ result = "Ok"
    /\ panel = "Ready"
    /\ refresh = "Full" /\ color = "Black"
    /\ Loads(trace, "Full")

====
